---------------------------- MODULE Spec2Model ----------------------------
(***************************************************************************)
(* SquashFS metadata extraction pipeline: sys/fs/squashfs/squashfs_block.c *)
(* (block reader, metadata cursor) and sys/fs/squashfs/squashfs_inode.c    *)
(* (inode resolver and variant decoders).                                  *)
(*                                                                         *)
(* The backing store is a byte sequence, positions are 0-based absolute    *)
(* byte offsets as in the C code.  sqsh_metadata_get is modelled one loop  *)
(* iteration per step; sqsh_get_inode is modelled as the steps between its *)
(* calls of sqsh_metadata_get.                                             *)
(***************************************************************************)
EXTENDS Integers, Sequences, FiniteSets, TLC

VARIABLES
    image,      \* the backing store: a sequence of bytes (position p is image[p+1])
    sb,         \* superblock fields used by the core: inode_table_start, inodes
    pc,         \* position of the running call: idle, get_loop, get_done, done
    op,         \* which caller drives sqsh_metadata_get: none, get, inode_base, inode_var
    g,          \* the frame of sqsh_metadata_get: cursor, pos, remaining size, buffer
    inode,      \* the struct sqsh_inode being filled by sqsh_get_inode
    ret,        \* return value of the finished top-level call
    io,         \* backing reads issued by the running top-level call, in order
    zlog,       \* decompressor invocations of the running top-level call (src_len each)
    heap,       \* allocation bookkeeping: live buffers, total allocated, total freed
    hin,        \* header value under test (header decoding specifications)
    hout        \* what the header decoding produced

vars == <<image, sb, pc, op, g, inode, ret, io, zlog, heap, hin, hout>>

---------------------------------------------------------------------------
(* Machine arithmetic                                                      *)

Pow2(n) == 2 ^ n

RECURSIVE BitAnd(_, _)
BitAnd(a, b) ==
    IF a = 0 \/ b = 0 THEN 0
    ELSE (a % 2) * (b % 2) + 2 * BitAnd(a \div 2, b \div 2)

RECURSIVE BitOr(_, _)
BitOr(a, b) ==
    IF a = 0 THEN b
    ELSE IF b = 0 THEN a
    ELSE (IF (a % 2) + (b % 2) > 0 THEN 1 ELSE 0) + 2 * BitOr(a \div 2, b \div 2)

\* ~x within a w-bit word, as an unsigned value (w <= 16 here: the model
\* checker's integers are 32-bit, wider words are kept as 16-bit limbs)
BitNot(x, w) == Pow2(w) - 1 - x

Min(a, b) == IF a < b THEN a ELSE b
Max(a, b) == IF a > b THEN a ELSE b

\* A uint32_t or uint64_t is a sequence of 16-bit limbs, least significant
\* first: <<lo, hi>> for 32 bits, four limbs for 64 bits.
W32(hi, lo) == <<lo, hi>>

WAnd(a, b) == [i \in DOMAIN a |-> BitAnd(a[i], b[i])]

WNot(a) == [i \in DOMAIN a |-> BitNot(a[i], 16)]

WIsZero(a) == \A i \in DOMAIN a : a[i] = 0

\* a < b as unsigned words of the same width
RECURSIVE WLessFrom(_, _, _)
WLessFrom(a, b, i) ==
    IF i = 0 THEN FALSE
    ELSE IF a[i] # b[i] THEN a[i] < b[i]
    ELSE WLessFrom(a, b, i - 1)

WLess(a, b) == WLessFrom(a, b, Len(a))

\* a + 1 in the word's width (wraps to zero)
RECURSIVE WIncFrom(_, _)
WIncFrom(a, i) ==
    IF i > Len(a) THEN a
    ELSE IF a[i] = 65535 THEN WIncFrom([a EXCEPT ![i] = 0], i + 1)
    ELSE [a EXCEPT ![i] = a[i] + 1]

WInc(a) == WIncFrom(a, 1)

\* bit k of a word
WBit(a, k) == (a[(k \div 16) + 1] \div Pow2(k % 16)) % 2

\* bits lo .. lo+n-1 of a word as a number (n <= 30)
RECURSIVE WBits(_, _, _)
WBits(a, lo, n) ==
    IF n = 0 THEN 0 ELSE WBit(a, lo) + 2 * WBits(a, lo + 1, n - 1)

\* a + b in the width of a (b of the same width), wrapping
RECURSIVE WAddFrom(_, _, _, _)
WAddFrom(a, b, i, carry) ==
    IF i > Len(a) THEN <<>>
    ELSE <<(a[i] + b[i] + carry) % 65536>>
         \o WAddFrom(a, b, i + 1, (a[i] + b[i] + carry) \div 65536)

WAdd(a, b) == WAddFrom(a, b, 1, 0)

\* a >> 16 in the width of a
WShr16(a) == Tail(a) \o <<0>>

\* a number below 2^31 as a 64-bit word, and back
W64Of(n) == <<n % 65536, n \div 65536, 0, 0>>
WInt(a) == a[1] + 65536 * a[2]

---------------------------------------------------------------------------
(* Constants of squashfs.h                                                 *)

SQFS_OK == "SQFS_OK"
SQFS_ERR == "SQFS_ERR"

SQUASHFS_METADATA_SIZE == Pow2(13)
SQUASHFS_COMPRESSED_BIT == Pow2(15)
\* (1 << 24) as a 32-bit word
SQUASHFS_COMPRESSED_BIT_BLOCK == W32(256, 0)
SQUASHFS_INVALID_XATTR == W32(65535, 65535)

---------------------------------------------------------------------------
(* Header decoding                                                         *)

\* a decoder that forgets the masked-zero rule
sqsh_metadata_header_nozero(hdr) ==
    [compressed |-> BitAnd(hdr, SQUASHFS_COMPRESSED_BIT) = 0,
     size |-> BitAnd(hdr, BitNot(SQUASHFS_COMPRESSED_BIT, 16))]

\* a decoder that reads the flag bit the other way round
sqsh_metadata_header_flipped(hdr) ==
    LET size == BitAnd(hdr, BitNot(SQUASHFS_COMPRESSED_BIT, 16))
    IN  [compressed |-> BitAnd(hdr, SQUASHFS_COMPRESSED_BIT) # 0,
         size |-> IF size = 0 THEN SQUASHFS_COMPRESSED_BIT ELSE size]

\* hdr is a uint16_t promoted to int and ~SQUASHFS_COMPRESSED_BIT an int with
\* every bit but bit 15 set: the bits above bit 15 meet zero bits of hdr, and
\* the result is stored in a uint16_t.
sqsh_metadata_header(hdr) ==
    LET size == BitAnd(hdr, BitNot(SQUASHFS_COMPRESSED_BIT, 16))
    IN  [compressed |-> BitAnd(hdr, SQUASHFS_COMPRESSED_BIT) = 0,
         size |-> IF size = 0 THEN SQUASHFS_COMPRESSED_BIT ELSE size]

\* a decoder that masks the size to its documented 24 bits
sqsh_data_header_low24(hdr) ==
    [compressed |-> WIsZero(WAnd(hdr, SQUASHFS_COMPRESSED_BIT_BLOCK)),
     size |-> W32(hdr[2] % 256, hdr[1])]

\* hdr and size are uint32_t
sqsh_data_header(hdr) ==
    [compressed |-> WIsZero(WAnd(hdr, SQUASHFS_COMPRESSED_BIT_BLOCK)),
     size |-> WAnd(hdr, WNot(SQUASHFS_COMPRESSED_BIT_BLOCK))]

---------------------------------------------------------------------------
(* Little-endian field access (le16toh, le32toh, le64toh of a byte image)  *)

RECURSIVE LE(_, _, _)
LE(bytes, off, n) ==
    IF n = 0 THEN 0 ELSE bytes[off + 1] + 256 * LE(bytes, off + 1, n - 1)

LE16(bytes, off) == LE(bytes, off, 2)
LE32(bytes, off) == <<LE16(bytes, off), LE16(bytes, off + 2)>>
LE64(bytes, off) ==
    <<LE16(bytes, off), LE16(bytes, off + 2), LE16(bytes, off + 4), LE16(bytes, off + 6)>>

---------------------------------------------------------------------------
(* External collaborators: backing I/O and the mount's decompressor        *)

\* read_at(dst, pos, len): the bytes of the image in [pos, pos+len), fewer
\* when the image ends before pos+len
sqsh_io_read_buf(img, pos, len) ==
    LET n == IF pos < 0 \/ pos >= Len(img) THEN 0 ELSE Min(len, Len(img) - pos)
    IN  [n |-> n, data |-> SubSeq(img, pos + 1, pos + n)]

\* decompress(src, src_len, dst, dst_len_inout): a stand-in codec.  The first
\* source byte selects the coding of the rest: 0 stored, 1 each stored run
\* twice, 2 an empty stream; anything else is a corrupt stream.  Output that
\* does not fit the capacity is an error, as the plug-in contract demands.
decompressor(src, cap) ==
    LET body == IF Len(src) = 0 THEN <<>> ELSE Tail(src)
        out == IF Len(src) = 0 THEN <<>>
               ELSE IF src[1] = 0 THEN body
               ELSE IF src[1] = 1 THEN body \o body
               ELSE <<>>
        bad == Len(src) = 0 \/ src[1] > 2 \/ Len(out) > cap
    IN  [err |-> IF bad THEN SQFS_ERR ELSE SQFS_OK,
         out |-> IF bad THEN <<>> ELSE out]

---------------------------------------------------------------------------
(* BlockReader                                                             *)

NullBlock == [null |-> TRUE, data |-> <<>>, size |-> 0, cap |-> 0]

\* one backing read: n bytes came back of the len asked for at pos
IoRec(pos, len, n) ==
    [kind |-> "read", pos |-> pos, len |-> len, n |-> n,
     err |-> IF n = len THEN SQFS_OK ELSE SQFS_ERR]

\* one decompressor call on len source bytes, producing n bytes or an error
ZRec(len, d) ==
    [kind |-> "z", pos |-> 0, len |-> len, n |-> Len(d.out), err |-> d.err]

\* sqsh_block_read without the error check on the decompressor's verdict
sqsh_block_read_noerrcheck(img, pos, compressed, size, outsize) ==
    LET rd == sqsh_io_read_buf(img, pos, size)
        d == decompressor(rd.data, outsize)
    IN  IF rd.n # size
        THEN [err |-> SQFS_ERR, block |-> NullBlock, io |-> <<IoRec(pos, size, rd.n)>>,
              z |-> <<>>, allocs |-> 2, frees |-> 2]
        ELSE IF compressed
        THEN [err |-> SQFS_OK,
              block |-> [null |-> FALSE, data |-> d.out, size |-> Len(d.out),
                         cap |-> outsize],
              io |-> <<IoRec(pos, size, rd.n), ZRec(size, d)>>, z |-> <<size>>,
              allocs |-> 3, frees |-> 1]
        ELSE [err |-> SQFS_OK,
              block |-> [null |-> FALSE, data |-> rd.data, size |-> size, cap |-> size],
              io |-> <<IoRec(pos, size, rd.n)>>, z |-> <<>>, allocs |-> 2, frees |-> 0]

\* sqsh_block_read whose error path returns without sqsh_free_block
sqsh_block_read_leak(img, pos, compressed, size, outsize) ==
    LET rd == sqsh_io_read_buf(img, pos, size)
        d == decompressor(rd.data, outsize)
    IN  IF rd.n # size
        THEN [err |-> SQFS_ERR, block |-> NullBlock, io |-> <<IoRec(pos, size, rd.n)>>,
              z |-> <<>>, allocs |-> 2, frees |-> 0]
        ELSE IF compressed
        THEN IF d.err # SQFS_OK
             THEN [err |-> SQFS_ERR, block |-> NullBlock,
                   io |-> <<IoRec(pos, size, rd.n), ZRec(size, d)>>, z |-> <<size>>,
                   allocs |-> 3, frees |-> 1]
             ELSE [err |-> SQFS_OK,
                   block |-> [null |-> FALSE, data |-> d.out, size |-> Len(d.out),
                              cap |-> outsize],
                   io |-> <<IoRec(pos, size, rd.n), ZRec(size, d)>>, z |-> <<size>>,
                   allocs |-> 3, frees |-> 1]
        ELSE [err |-> SQFS_OK,
              block |-> [null |-> FALSE, data |-> rd.data, size |-> size, cap |-> size],
              io |-> <<IoRec(pos, size, rd.n)>>, z |-> <<>>, allocs |-> 2, frees |-> 0]

\* sqsh_block_read that hands every payload to the decompressor
sqsh_block_read_alwaysz(img, pos, compressed, size, outsize) ==
    LET rd == sqsh_io_read_buf(img, pos, size)
        d == decompressor(rd.data, outsize)
    IN  IF rd.n # size
        THEN [err |-> SQFS_ERR, block |-> NullBlock, io |-> <<IoRec(pos, size, rd.n)>>,
              z |-> <<>>, allocs |-> 2, frees |-> 2]
        ELSE IF d.err # SQFS_OK
        THEN [err |-> SQFS_ERR, block |-> NullBlock,
              io |-> <<IoRec(pos, size, rd.n), ZRec(size, d)>>, z |-> <<size>>,
              allocs |-> 3, frees |-> 3]
        ELSE [err |-> SQFS_OK,
              block |-> [null |-> FALSE, data |-> d.out, size |-> Len(d.out),
                         cap |-> outsize],
              io |-> <<IoRec(pos, size, rd.n), ZRec(size, d)>>, z |-> <<size>>,
              allocs |-> 3, frees |-> 1]

\* The result carries the block handed back (NullBlock on error), the backing
\* reads and decompressor calls made, and the buffers allocated and freed.
sqsh_block_read(img, pos, compressed, size, outsize) ==
    LET rd == sqsh_io_read_buf(img, pos, size)
        d == decompressor(rd.data, outsize)
    IN  IF rd.n # size
        THEN [err |-> SQFS_ERR, block |-> NullBlock, io |-> <<IoRec(pos, size, rd.n)>>,
              z |-> <<>>, allocs |-> 2, frees |-> 2]
        ELSE IF compressed
        THEN IF d.err # SQFS_OK
             THEN [err |-> SQFS_ERR, block |-> NullBlock,
                   io |-> <<IoRec(pos, size, rd.n), ZRec(size, d)>>, z |-> <<size>>,
                   allocs |-> 3, frees |-> 3]
             ELSE [err |-> SQFS_OK,
                   block |-> [null |-> FALSE, data |-> d.out, size |-> Len(d.out),
                              cap |-> outsize],
                   io |-> <<IoRec(pos, size, rd.n), ZRec(size, d)>>, z |-> <<size>>,
                   allocs |-> 3, frees |-> 1]
        ELSE [err |-> SQFS_OK,
              block |-> [null |-> FALSE, data |-> rd.data, size |-> size, cap |-> size],
              io |-> <<IoRec(pos, size, rd.n)>>, z |-> <<>>, allocs |-> 2, frees |-> 0]

\* what sqsh_metadata_read leaves of the block read it never reached
NoBlockRead ==
    [err |-> SQFS_ERR, block |-> NullBlock, io |-> <<>>, z |-> <<>>,
     allocs |-> 0, frees |-> 0]

\* sqsh_metadata_read that leaves the header out of *data_size
sqsh_metadata_read_nohdr(img, pos) ==
    LET rd == sqsh_io_read_buf(img, pos, 2)
        hdr == LE16(rd.data, 0)
        h == sqsh_metadata_header(hdr)
    IN  IF rd.n # 2
        THEN [decoded |-> FALSE, hdr |-> 0, compressed |-> FALSE, size |-> 0,
              data_size |-> 0, hio |-> IoRec(pos, 2, rd.n), b |-> NoBlockRead]
        ELSE [decoded |-> TRUE, hdr |-> hdr, compressed |-> h.compressed,
              size |-> h.size, data_size |-> h.size,
              hio |-> IoRec(pos, 2, rd.n),
              b |-> sqsh_block_read(img, pos + 2, h.compressed, h.size,
                                    SQUASHFS_METADATA_SIZE)]

\* sqsh_metadata_read that leaves the payload out of *data_size
sqsh_metadata_read_nosize(img, pos) ==
    LET rd == sqsh_io_read_buf(img, pos, 2)
        hdr == LE16(rd.data, 0)
        h == sqsh_metadata_header(hdr)
    IN  IF rd.n # 2
        THEN [decoded |-> FALSE, hdr |-> 0, compressed |-> FALSE, size |-> 0,
              data_size |-> 0, hio |-> IoRec(pos, 2, rd.n), b |-> NoBlockRead]
        ELSE [decoded |-> TRUE, hdr |-> hdr, compressed |-> h.compressed,
              size |-> h.size, data_size |-> 2,
              hio |-> IoRec(pos, 2, rd.n),
              b |-> sqsh_block_read(img, pos + 2, h.compressed, h.size,
                                    SQUASHFS_METADATA_SIZE)]

\* The result exposes the header read (hio), the locals hdr, compressed and
\* size once the header has been read (decoded), *data_size, and the block
\* read (b), whose err is the value returned.
sqsh_metadata_read(img, pos) ==
    LET rd == sqsh_io_read_buf(img, pos, 2)
        hdr == LE16(rd.data, 0)
        h == sqsh_metadata_header(hdr)
    IN  IF rd.n # 2
        THEN [decoded |-> FALSE, hdr |-> 0, compressed |-> FALSE, size |-> 0,
              data_size |-> 0, hio |-> IoRec(pos, 2, rd.n), b |-> NoBlockRead]
        ELSE [decoded |-> TRUE, hdr |-> hdr, compressed |-> h.compressed,
              size |-> h.size, data_size |-> 2 + h.size,
              hio |-> IoRec(pos, 2, rd.n),
              b |-> sqsh_block_read(img, pos + 2, h.compressed, h.size,
                                    SQUASHFS_METADATA_SIZE)]

---------------------------------------------------------------------------
(* State shared by all specifications                                      *)

Cursor(b, o) == [block |-> b, offset |-> o]

\* the frame of sqsh_metadata_get when no call is running
IdleFrame ==
    [cur |-> Cursor(0, 0), pos |-> 0, size |-> 0, buf |-> <<>>, dst |-> FALSE,
     err |-> "none", start |-> Cursor(0, 0), n |-> 0, iters |-> 0,
     last |-> [valid |-> FALSE]]

\* memset(inode, 0, sizeof(*inode)); VNON is enum vtype's zero
ZeroInode ==
    [base |-> [inode_type |-> 0, mode |-> 0, uid |-> 0, guid |-> 0,
               mtime |-> W32(0, 0), inode_number |-> W32(0, 0)],
     nlink |-> W32(0, 0), xattr |-> W32(0, 0), size |-> <<0>>, type |-> "VNON",
     next |-> Cursor(0, 0),
     xtra |-> [major |-> 0, minor |-> 0, start_block |-> W32(0, 0),
               frag_idx |-> W32(0, 0), frag_off |-> W32(0, 0), offset |-> 0,
               idx_count |-> 0, parent_inode |-> W32(0, 0)]]

\* buffers live now, and allocated and freed by the running call
EmptyHeap == [live |-> 0, allocs |-> 0, frees |-> 0]

NoHeader == [decoded |-> FALSE]

---------------------------------------------------------------------------
(* Metadata header decoding and one metadata block read, for every 16-bit  *)
(* header value                                                            *)

\* payloads up to this size are present in full behind every header
MaxSmallPayload == 3
\* last selector byte tried in front of a payload (3 is a corrupt stream)
MaxSelector == 3

HdrBytes(h) == <<h % 256, h \div 256>>

Zeros(n) == [i \in 1..n |-> 0]

\* the on-disk payload size a header announces, by the format's rule
OnDiskSize(h) == IF h % 32768 = 0 THEN 32768 ELSE h % 32768

\* headers whose payload is present in full whatever its size
BoundaryHeaders == {0, 32768, 16384, 8192, 8193, 40960, 40961, 65535}

HasPayload(h) == h \in BoundaryHeaders \/ OnDiskSize(h) <= MaxSmallPayload

InitMeta ==
    /\ hin \in 0..65535
    /\ \E m \in (IF HasPayload(hin) THEN 0..MaxSelector ELSE {0}) :
          image = IF HasPayload(hin)
                  THEN HdrBytes(hin) \o <<m>> \o Zeros(OnDiskSize(hin) - 1)
                  ELSE HdrBytes(hin)
    /\ sb = [inode_table_start |-> 0, inodes |-> W32(0, 0)]
    /\ pc = "idle"
    /\ op = "none"
    /\ g = IdleFrame
    /\ inode = ZeroInode
    /\ ret = "none"
    /\ io = <<>>
    /\ zlog = <<>>
    /\ heap = EmptyHeap
    /\ hout = NoHeader

\* sqsh_metadata_read(ump, 0, &data_size, &block)
MetadataRead ==
    /\ pc = "idle"
    /\ \E r \in {sqsh_metadata_read(image, 0)} :
           /\ hout' = [decoded |-> r.decoded, hdr |-> r.hdr,
                       compressed |-> r.compressed, size |-> r.size,
                       data_size |-> r.data_size, block_null |-> r.b.block.null,
                       block_size |-> r.b.block.size]
           /\ ret' = r.b.err
           /\ io' = <<r.hio>> \o r.b.io
           /\ zlog' = r.b.z
           /\ heap' = [live |-> r.b.allocs - r.b.frees, allocs |-> r.b.allocs,
                       frees |-> r.b.frees]
    /\ pc' = "done"
    /\ UNCHANGED <<image, sb, op, g, inode, hin>>

NextMeta == MetadataRead

SpecMeta == InitMeta /\ [][NextMeta]_vars

---------------------------------------------------------------------------
(* Data header decoding                                                    *)

\* largest value of header bits 31..25 tried
MaxHighBits == 127

\* values of header bits 23..0 tried, as <<bits 23..16, bits 15..0>>
DataSizes == {<<0, 0>>, <<0, 1>>, <<0, 4096>>, <<2, 0>>, <<16, 0>>, <<255, 65535>>}

InitData ==
    /\ hin \in {W32(hi * 512 + f * 256 + lo[1], lo[2]) :
                   hi \in 0..MaxHighBits, f \in 0..1, lo \in DataSizes}
    /\ image = <<>>
    /\ sb = [inode_table_start |-> 0, inodes |-> W32(0, 0)]
    /\ pc = "idle"
    /\ op = "none"
    /\ g = IdleFrame
    /\ inode = ZeroInode
    /\ ret = "none"
    /\ io = <<>>
    /\ zlog = <<>>
    /\ heap = EmptyHeap
    /\ hout = NoHeader

\* sqsh_data_header(hdr, &compressed, &size), as sqsh_data_read calls it
DataHeader ==
    /\ pc = "idle"
    /\ \E h \in {sqsh_data_header(hin)} :
           hout' = [decoded |-> TRUE, hdr |-> hin, compressed |-> h.compressed,
                    size |-> h.size]
    /\ pc' = "done"
    /\ UNCHANGED <<image, sb, op, g, inode, ret, io, zlog, heap, hin>>

NextData == DataHeader

SpecData == InitData /\ [][NextData]_vars

---------------------------------------------------------------------------
(* Inode type codes and record sizes of squashfs.h                         *)

SQUASHFS_DIR_TYPE == 1
SQUASHFS_REG_TYPE == 2
SQUASHFS_SYMLINK_TYPE == 3
SQUASHFS_BLKDEV_TYPE == 4
SQUASHFS_CHRDEV_TYPE == 5
SQUASHFS_FIFO_TYPE == 6
SQUASHFS_SOCKET_TYPE == 7
SQUASHFS_LDIR_TYPE == 8
SQUASHFS_LREG_TYPE == 9
SQUASHFS_LSYMLINK_TYPE == 10
SQUASHFS_LBLKDEV_TYPE == 11
SQUASHFS_LCHRDEV_TYPE == 12
SQUASHFS_LFIFO_TYPE == 13
SQUASHFS_LSOCKET_TYPE == 14

SQUASHFS_TYPE_MIN_VALID == 1
SQUASHFS_TYPE_MAX_VALID == 14
SQUASHFS_INODE_MIN_COUNT == W32(0, 1)

\* sizeof(struct sqsh_base_inode)
SizeofBase == 16

\* bytes of a variant's on-disk record that follow the base header
VariantTail(t) ==
    CASE t = SQUASHFS_REG_TYPE -> 16
      [] t = SQUASHFS_LREG_TYPE -> 40
      [] t = SQUASHFS_DIR_TYPE -> 16
      [] t = SQUASHFS_LDIR_TYPE -> 24
      [] t \in {SQUASHFS_SYMLINK_TYPE, SQUASHFS_LSYMLINK_TYPE} -> 8
      [] t \in {SQUASHFS_BLKDEV_TYPE, SQUASHFS_CHRDEV_TYPE,
                SQUASHFS_FIFO_TYPE, SQUASHFS_SOCKET_TYPE} -> 8
      [] t \in {SQUASHFS_LBLKDEV_TYPE, SQUASHFS_LCHRDEV_TYPE,
                SQUASHFS_LFIFO_TYPE, SQUASHFS_LSOCKET_TYPE} -> 12
      [] OTHER -> 0

\* a variant struct without the fields of the base header
SizeofVariant_tailonly(t) == VariantTail(t)

\* sizeof(temp) in the variant decoder of type t: every variant struct
\* begins with the fields of the base header
SizeofVariant(t) == SizeofBase + VariantTail(t)

---------------------------------------------------------------------------
(* MetadataCursor: the parts of one iteration of sqsh_metadata_get         *)

\* take = block->size - cur->offset; if (take > size) take = size;
\* The subtraction is in size_t: with offset > bsize it wraps to
\* 2^64 - (offset - bsize), which exceeds every size of the model
\* (offset, bsize and size stay below 2^31), so take becomes size.
sqsh_metadata_get_take(bsize, offset, size) ==
    IF offset > bsize THEN size ELSE Min(bsize - offset, size)

\* an advance that moves by the decompressed size instead of the footprint
sqsh_metadata_get_advance_payload(cur, take, bsize, pos, data_size) ==
    IF cur.offset + take = bsize
    THEN Cursor(pos + 2 + bsize, 0)
    ELSE Cursor(cur.block, cur.offset + take)

\* an advance that forgets to reset the offset at the end of a block
sqsh_metadata_get_advance_noreset(cur, take, bsize, pos, data_size) ==
    IF cur.offset + take = bsize
    THEN Cursor(pos + data_size, cur.offset + take)
    ELSE Cursor(cur.block, cur.offset + take)

\* an advance that never leaves the block
sqsh_metadata_get_advance_stay(cur, take, bsize, pos, data_size) ==
    Cursor(cur.block, cur.offset + take)

\* cur->offset += take; if (cur->offset == block->size) { cur->block = pos;
\* cur->offset = 0; } where pos has already been moved past the block:
\* pos here is the header position the block was read from.
sqsh_metadata_get_advance(cur, take, bsize, pos, data_size) ==
    IF cur.offset + take = bsize
    THEN Cursor(pos + data_size, 0)
    ELSE Cursor(cur.block, cur.offset + take)

---------------------------------------------------------------------------
(* InodeResolver and InodeDecoder                                          *)

\* a seed that drops the in-block offset
sqsh_metadata_run_inode_nooffset(id, base) ==
    Cursor(WAdd(WShr16(id), base), 0)

\* cur->block = (id >> 16) + base; cur->offset = id & 0xffff; on the 64-bit
\* words id and base, the block as a 64-bit word
sqsh_metadata_run_inode(id, base) ==
    Cursor(WAdd(WShr16(id), base), id[1])

sqsh_inode_type(inode_type) ==
    CASE inode_type \in {SQUASHFS_DIR_TYPE, SQUASHFS_LDIR_TYPE} -> "VDIR"
      [] inode_type \in {SQUASHFS_REG_TYPE, SQUASHFS_LREG_TYPE} -> "VREG"
      [] inode_type \in {SQUASHFS_SYMLINK_TYPE, SQUASHFS_LSYMLINK_TYPE} -> "VLNK"
      [] inode_type \in {SQUASHFS_BLKDEV_TYPE, SQUASHFS_LBLKDEV_TYPE} -> "VBLK"
      [] inode_type \in {SQUASHFS_CHRDEV_TYPE, SQUASHFS_LCHRDEV_TYPE} -> "VCHR"
      [] inode_type \in {SQUASHFS_FIFO_TYPE, SQUASHFS_LFIFO_TYPE} -> "VFIFO"
      [] inode_type \in {SQUASHFS_SOCKET_TYPE, SQUASHFS_LSOCKET_TYPE} -> "VSOCK"
      [] OTHER -> "VBAD"

\* a validation that skips the inode_number range check
sqsh_verify_inode_nonumber(sbv, ino) ==
    IF ino.base.inode_type < SQUASHFS_TYPE_MIN_VALID
       \/ ino.base.inode_type > SQUASHFS_TYPE_MAX_VALID
    THEN SQFS_ERR
    ELSE SQFS_OK

sqsh_verify_inode(sbv, ino) ==
    IF ino.base.inode_type < SQUASHFS_TYPE_MIN_VALID
       \/ ino.base.inode_type > SQUASHFS_TYPE_MAX_VALID
    THEN SQFS_ERR
    ELSE IF WLess(ino.base.inode_number, SQUASHFS_INODE_MIN_COUNT)
            \/ WLess(sbv.inodes, ino.base.inode_number)
    THEN SQFS_ERR
    ELSE IF ino.base.inode_type = SQUASHFS_DIR_TYPE
            /\ (WLess(ino.xtra.parent_inode, SQUASHFS_INODE_MIN_COUNT)
                \/ WLess(WInc(sbv.inodes), ino.xtra.parent_inode))
    THEN SQFS_ERR
    ELSE SQFS_OK

\* the 16 bytes of struct sqsh_base_inode after swapendian_base_inode
swapendian_base_inode(b) ==
    [inode_type |-> LE16(b, 0), mode |-> LE16(b, 2), uid |-> LE16(b, 4),
     guid |-> LE16(b, 6), mtime |-> LE32(b, 8), inode_number |-> LE32(b, 12)]

\* a switch whose default case decodes instead of returning
HasVariantDecoder_any(t) == TRUE

\* the cases of the switch in sqsh_get_inode that call a variant decoder
HasVariantDecoder(t) ==
    t \in {SQUASHFS_REG_TYPE, SQUASHFS_LREG_TYPE, SQUASHFS_DIR_TYPE,
           SQUASHFS_LDIR_TYPE, SQUASHFS_SYMLINK_TYPE, SQUASHFS_LSYMLINK_TYPE,
           SQUASHFS_BLKDEV_TYPE, SQUASHFS_CHRDEV_TYPE, SQUASHFS_LBLKDEV_TYPE,
           SQUASHFS_LCHRDEV_TYPE, SQUASHFS_SOCKET_TYPE, SQUASHFS_FIFO_TYPE,
           SQUASHFS_LSOCKET_TYPE, SQUASHFS_LFIFO_TYPE}

\* a compact regular-file decoder that takes nlink from the record
sqsh_init_reg_inode_disknlink(ino, t) ==
    [ino EXCEPT !.nlink = LE32(t, 16),
                !.xtra.start_block = LE32(t, 16),
                !.size = LE32(t, 28),
                !.xtra.frag_idx = LE32(t, 20),
                !.xtra.frag_off = LE32(t, 24)]

sqsh_init_reg_inode(ino, t) ==
    [ino EXCEPT !.nlink = W32(0, 1),
                !.xtra.start_block = LE32(t, 16),
                !.size = LE32(t, 28),
                !.xtra.frag_idx = LE32(t, 20),
                !.xtra.frag_off = LE32(t, 24)]

sqsh_init_lreg_inode(ino, t) ==
    [ino EXCEPT !.nlink = LE32(t, 40),
                !.xtra.start_block = LE64(t, 16),
                !.size = LE64(t, 24),
                !.xtra.frag_idx = LE32(t, 44),
                !.xtra.frag_off = LE32(t, 48),
                !.xattr = LE32(t, 52)]

sqsh_init_dir_inode(ino, t) ==
    [ino EXCEPT !.nlink = LE32(t, 20),
                !.xtra.start_block = LE32(t, 16),
                !.xtra.offset = LE16(t, 26),
                !.size = <<LE16(t, 24)>>,
                !.xtra.idx_count = 0,
                !.xtra.parent_inode = LE32(t, 28)]

sqsh_init_ldir_inode(ino, t) ==
    [ino EXCEPT !.nlink = LE32(t, 16),
                !.xtra.start_block = LE32(t, 24),
                !.xtra.offset = LE16(t, 34),
                !.size = LE32(t, 20),
                !.xtra.idx_count = LE16(t, 32),
                !.xtra.parent_inode = LE32(t, 28),
                !.xattr = LE32(t, 36)]

sqsh_init_symlink_inode(ino, t) ==
    [ino EXCEPT !.nlink = LE32(t, 16), !.size = LE32(t, 20)]

\* a compact device decoder that drops bits 8 .. 19 of the minor
sqsh_init_dev_inode_lowminor(ino, t) ==
    [ino EXCEPT !.size = <<0>>,
                !.nlink = LE32(t, 16),
                !.xtra.major = WBits(LE32(t, 20), 8, 12),
                !.xtra.minor = WBits(LE32(t, 20), 0, 8)]

sqsh_init_dev_inode(ino, t) ==
    [ino EXCEPT !.size = <<0>>,
                !.nlink = LE32(t, 16),
                !.xtra.major = WBits(LE32(t, 20), 8, 12),
                !.xtra.minor = BitOr(WBits(LE32(t, 20), 0, 8),
                                     256 * WBits(LE32(t, 20), 20, 12))]

sqsh_init_ldev_inode(ino, t) ==
    [ino EXCEPT !.size = <<0>>,
                !.nlink = LE32(t, 16),
                !.xattr = LE32(t, 24),
                !.xtra.major = WBits(LE32(t, 20), 8, 12),
                !.xtra.minor = BitOr(WBits(LE32(t, 20), 0, 8),
                                     256 * WBits(LE32(t, 20), 20, 12))]

sqsh_init_ipc_inode(ino, t) ==
    [ino EXCEPT !.size = <<0>>, !.nlink = LE32(t, 16)]

sqsh_init_lipc_inode(ino, t) ==
    [ino EXCEPT !.size = <<0>>, !.nlink = LE32(t, 16), !.xattr = LE32(t, 20)]

\* the variant decoder the switch of sqsh_get_inode selects, applied to the
\* record temp pulled through inode->next
InitVariant(ino, t) ==
    CASE ino.base.inode_type = SQUASHFS_REG_TYPE -> sqsh_init_reg_inode(ino, t)
      [] ino.base.inode_type = SQUASHFS_LREG_TYPE -> sqsh_init_lreg_inode(ino, t)
      [] ino.base.inode_type = SQUASHFS_DIR_TYPE -> sqsh_init_dir_inode(ino, t)
      [] ino.base.inode_type = SQUASHFS_LDIR_TYPE -> sqsh_init_ldir_inode(ino, t)
      [] ino.base.inode_type \in {SQUASHFS_SYMLINK_TYPE, SQUASHFS_LSYMLINK_TYPE} ->
             sqsh_init_symlink_inode(ino, t)
      [] ino.base.inode_type \in {SQUASHFS_BLKDEV_TYPE, SQUASHFS_CHRDEV_TYPE} ->
             sqsh_init_dev_inode(ino, t)
      [] ino.base.inode_type \in {SQUASHFS_LBLKDEV_TYPE, SQUASHFS_LCHRDEV_TYPE} ->
             sqsh_init_ldev_inode(ino, t)
      [] ino.base.inode_type \in {SQUASHFS_SOCKET_TYPE, SQUASHFS_FIFO_TYPE} ->
             sqsh_init_ipc_inode(ino, t)
      [] ino.base.inode_type \in {SQUASHFS_LSOCKET_TYPE, SQUASHFS_LFIFO_TYPE} ->
             sqsh_init_lipc_inode(ino, t)
      [] OTHER -> ino

---------------------------------------------------------------------------
(* Backing stores of the cursor and inode specification                    *)

\* blocks in a generated metadata stream
MaxBlocks == 3
\* largest cursor offset and largest request size of a direct cursor pull
MaxOffset == 3
MaxGet == 4
\* the request size of the three-blocks-of-100 scenario
ExampleGet == 250
\* direct pulls start at header positions 0 .. MaxPos
MaxPos == 6
\* total inode count of the superblock
NumInodes == 3
\* inode ids address metadata blocks 0 .. MaxIdBlock past the table start
MaxIdBlock == 1
\* an in-block offset past the end of every generated inode block
FarOffset == 60

B16(v) == <<v % 256, v \div 256>>
B32(w) == B16(w[1]) \o B16(w[2])
B64(w) == B16(w[1]) \o B16(w[2]) \o B16(w[3]) \o B16(w[4])

\* n payload bytes tagged with their block k and index
Bytes(k, n) == [i \in 1..n |-> (k * 100 + i) % 251]

\* a block stored raw: flag bit set, payload as is (1 .. 0x7fff bytes)
RawBlock(payload) == HdrBytes(32768 + Len(payload)) \o payload

\* a block stored compressed: selector byte sel, then the coded stream
ZBlock(sel, body) == HdrBytes(1 + Len(body)) \o <<sel>> \o body

\* the block kinds of a generated stream: raw with 2 payload bytes, stored
\* with 3 (4 on disk), an empty compressed stream, a corrupt stream
StreamKinds == {"R2", "Z3", "ZE", "ZB"}

StreamBlock(kind, k) ==
    CASE kind = "R2" -> RawBlock(Bytes(k, 2))
      [] kind = "Z3" -> ZBlock(0, Bytes(k, 3))
      [] kind = "ZE" -> ZBlock(2, <<>>)
      [] OTHER -> ZBlock(9, Bytes(k, 1))

RECURSIVE StreamImage(_, _)
StreamImage(kinds, k) ==
    IF k > Len(kinds) THEN <<>>
    ELSE StreamBlock(kinds[k], k) \o StreamImage(kinds, k + 1)

StreamImages ==
    {StreamImage(kinds, 1) :
        kinds \in UNION {[1..m -> StreamKinds] : m \in 1..MaxBlocks}}

\* three compressed blocks with payloads of 100, 100 and 100 bytes
ExampleImage ==
    ZBlock(0, Bytes(1, 100)) \o ZBlock(0, Bytes(2, 100)) \o ZBlock(0, Bytes(3, 100))

\* an on-disk inode record of type t: the base header, then the variant's
\* fields (unknown types get 16 zero bytes)
InodeRecord(t, number, parent) ==
    LET base == B16(t) \o B16(420) \o B16(1) \o B16(2) \o B32(W32(1, 2))
                \o B32(number)
        nlink == B32(W32(0, 2))
        xattr == B32(W32(0, 7))
        rdev == B32(W32(18, 2117))
    IN  base \o
        (CASE t = SQUASHFS_REG_TYPE ->
                  B32(W32(0, 96)) \o B32(W32(65535, 65535)) \o B32(W32(0, 0))
                  \o B32(W32(0, 5))
           [] t = SQUASHFS_LREG_TYPE ->
                  B64(<<96, 0, 0, 0>>) \o B64(<<5, 0, 1, 0>>) \o B64(<<0, 0, 0, 0>>)
                  \o nlink \o B32(W32(65535, 65535)) \o B32(W32(0, 0)) \o xattr
           [] t = SQUASHFS_DIR_TYPE ->
                  B32(W32(0, 3)) \o nlink \o B16(30) \o B16(4) \o B32(parent)
           [] t = SQUASHFS_LDIR_TYPE ->
                  nlink \o B32(W32(0, 30)) \o B32(W32(0, 3)) \o B32(parent)
                  \o B16(0) \o B16(4) \o xattr
           [] t \in {SQUASHFS_SYMLINK_TYPE, SQUASHFS_LSYMLINK_TYPE} ->
                  nlink \o B32(W32(0, 3))
           [] t \in {SQUASHFS_BLKDEV_TYPE, SQUASHFS_CHRDEV_TYPE} -> nlink \o rdev
           [] t \in {SQUASHFS_LBLKDEV_TYPE, SQUASHFS_LCHRDEV_TYPE} ->
                  nlink \o rdev \o xattr
           [] t \in {SQUASHFS_FIFO_TYPE, SQUASHFS_SOCKET_TYPE} -> nlink \o Zeros(4)
           [] t \in {SQUASHFS_LFIFO_TYPE, SQUASHFS_LSOCKET_TYPE} ->
                  nlink \o xattr \o Zeros(4)
           [] OTHER -> Zeros(16))

\* the inode records tried: every type code 0 .. 15 with valid numbers, the
\* boundary inode numbers, and the boundary parents of both directory codes
InodeRecords ==
    {InodeRecord(t, W32(0, 1), W32(0, 1)) : t \in 0..15}
    \cup {InodeRecord(t, W32(0, n), W32(0, 1)) :
            t \in {SQUASHFS_DIR_TYPE, SQUASHFS_REG_TYPE, SQUASHFS_LDIR_TYPE},
            n \in {0, NumInodes, NumInodes + 1}}
    \cup {InodeRecord(t, W32(0, 1), W32(0, par)) :
            t \in {SQUASHFS_DIR_TYPE, SQUASHFS_LDIR_TYPE},
            par \in {0, NumInodes + 1, NumInodes + 2}}

\* bytes in front of the record inside its block, in the padded layout
InodePad == 2

\* the ways a record is laid out in metadata blocks: one raw block, one raw
\* block between InodePad other bytes on either side, split in two raw blocks inside the base
\* header, at its end, and inside the tail, one compressed block, and a
\* record whose second block is a corrupt stream
InodeLayouts(rec) ==
    {RawBlock(rec),
     RawBlock(Bytes(0, InodePad) \o rec \o Bytes(0, InodePad)),
     RawBlock(SubSeq(rec, 1, 10)) \o RawBlock(SubSeq(rec, 11, Len(rec))),
     RawBlock(SubSeq(rec, 1, 16)) \o RawBlock(SubSeq(rec, 17, Len(rec))),
     ZBlock(0, rec),
     RawBlock(SubSeq(rec, 1, 20)) \o ZBlock(9, SubSeq(rec, 21, Len(rec)))}

InodeImages == UNION {InodeLayouts(rec) : rec \in InodeRecords}

Images == StreamImages \cup {ExampleImage} \cup InodeImages

\* what a read outside the valid bytes of a block buffer may find: memory of
\* one byte value, or an inode record an earlier block left there
GarbageBytes == {0, 255}

StaleRecord == InodeRecord(SQUASHFS_LREG_TYPE, W32(0, 1), W32(0, 1))

Fill(b, n) == [i \in 1..n |-> b]

---------------------------------------------------------------------------
(* The cursor and inode specification                                      *)

Init ==
    /\ image \in Images
    /\ sb = [inode_table_start |-> 0, inodes |-> W32(0, NumInodes)]
    /\ pc = "idle"
    /\ op = "none"
    /\ g = IdleFrame
    /\ inode = ZeroInode
    /\ ret = "none"
    /\ io = <<>>
    /\ zlog = <<>>
    /\ heap = EmptyHeap
    /\ hin = "none"
    /\ hout = NoHeader

\* entry of sqsh_metadata_get(ump, cur, buf, size): pos = cur->block, and the
\* first evaluation of the loop condition
NewFrame(cur, n, dst) ==
    [cur |-> cur, pos |-> cur.block, size |-> n, buf |-> <<>>, dst |-> dst,
     err |-> IF n > 0 THEN "run" ELSE SQFS_OK, start |-> cur, n |-> n,
     iters |-> 0, last |-> [valid |-> FALSE]]

AfterEntry(n) == IF n > 0 THEN "get_loop" ELSE "get_done"

\* memcpy(buf, (char*)block->data + cur->offset, take) under if (buf): the
\* bytes that may arrive, or a fault.  Inside the block's valid bytes the
\* copy is exact.  Past them (the wrapped take of an offset beyond the block)
\* the source is uninitialised or foreign memory: any of the garbage
\* patterns, and a fault when the range leaves the allocation.
CopyOutcomes(block, offset, take, dst) ==
    IF ~dst
    THEN {[fault |-> FALSE, bytes |-> <<>>]}
    ELSE IF offset + take <= block.size
    THEN {[fault |-> FALSE, bytes |-> SubSeq(block.data, offset + 1, offset + take)]}
    ELSE {[fault |-> FALSE, bytes |-> Fill(b, take)] : b \in GarbageBytes}
         \cup (IF take <= Len(StaleRecord)
               THEN {[fault |-> FALSE, bytes |-> SubSeq(StaleRecord, 1, take)]}
               ELSE {})
         \cup (IF offset + take > block.cap
               THEN {[fault |-> TRUE, bytes |-> <<>>]}
               ELSE {})

\* a caller invokes sqsh_metadata_get directly on a cursor of its own
sqsh_metadata_get_call ==
    /\ pc = "idle"
    /\ \E b \in 0..Min(Len(image), MaxPos), o \in 0..MaxOffset,
          n \in (0..MaxGet) \cup {ExampleGet}, d \in BOOLEAN :
          /\ g' = NewFrame(Cursor(b, o), n, d)
          /\ pc' = AfterEntry(n)
          /\ hin' = [cur |-> Cursor(b, o), n |-> n, dst |-> d]
    /\ op' = "get"
    /\ io' = <<>>
    /\ zlog' = <<>>
    /\ UNCHANGED <<image, sb, inode, ret, heap, hout>>

\* one iteration of the while loop of sqsh_metadata_get, up to and including
\* the next evaluation of the loop condition
sqsh_metadata_get_iter ==
    /\ pc = "get_loop"
    /\ \E r \in {sqsh_metadata_read(image, g.pos)} :
          /\ io' = io \o <<r.hio>> \o r.b.io
          /\ zlog' = zlog \o r.b.z
          /\ IF r.b.err # SQFS_OK
             THEN /\ g' = [g EXCEPT !.err = r.b.err, !.iters = @ + 1,
                                    !.last = [valid |-> FALSE]]
                  /\ heap' = [live |-> heap.live + r.b.allocs - r.b.frees,
                              allocs |-> heap.allocs + r.b.allocs,
                              frees |-> heap.frees + r.b.frees]
                  /\ pc' = "get_done"
                  /\ ret' = ret
             ELSE \E take \in {sqsh_metadata_get_take(r.b.block.size, g.cur.offset,
                                                      g.size)} :
                  \E c \in CopyOutcomes(r.b.block, g.cur.offset, take, g.dst) :
                     IF c.fault
                     THEN /\ g' = [g EXCEPT !.err = "FAULT", !.iters = @ + 1]
                          /\ heap' = [live |-> heap.live + r.b.allocs - r.b.frees,
                                      allocs |-> heap.allocs + r.b.allocs,
                                      frees |-> heap.frees + r.b.frees]
                          /\ pc' = "crashed"
                          /\ ret' = "FAULT"
                     ELSE /\ g' = [g EXCEPT
                                     !.cur = sqsh_metadata_get_advance(
                                                 g.cur, take, r.b.block.size, g.pos,
                                                 r.data_size),
                                     !.pos = g.pos + r.data_size,
                                     !.size = g.size - take,
                                     !.buf = g.buf \o c.bytes,
                                     !.err = IF g.size - take > 0 THEN "run"
                                             ELSE SQFS_OK,
                                     !.iters = @ + 1,
                                     !.last = [valid |-> TRUE, hdrpos |-> g.pos,
                                               disk |-> r.size,
                                               size |-> r.b.block.size,
                                               before |-> g.cur, take |-> take]]
                          \* sqsh_free_block(block)
                          /\ heap' = [live |-> heap.live + r.b.allocs - r.b.frees - 2,
                                      allocs |-> heap.allocs + r.b.allocs,
                                      frees |-> heap.frees + r.b.frees + 2]
                          /\ pc' = AfterEntry(g.size - take)
                          /\ ret' = ret
    /\ UNCHANGED <<image, sb, op, inode, hin, hout>>

\* sqsh_metadata_get returns to the caller that invoked it directly
sqsh_metadata_get_return ==
    /\ pc = "get_done"
    /\ op = "get"
    /\ ret' = g.err
    /\ pc' = "done"
    /\ UNCHANGED <<image, sb, op, g, inode, io, zlog, heap, hin, hout>>

InodeIds ==
    {<<o, b, 0, 0>> : b \in 0..MaxIdBlock, o \in {0, InodePad, FarOffset}}

\* sqsh_metadata_run_inode(&cur, id, ump->sb.inode_table_start), the block
\* as a position in the backing store
SeedCursor(id, sbv) ==
    LET seed == sqsh_metadata_run_inode(id, W64Of(sbv.inode_table_start))
    IN  Cursor(WInt(seed.block), seed.offset)

\* sqsh_get_inode(ump, inode, id) up to its first call of sqsh_metadata_get
sqsh_get_inode_call ==
    /\ pc = "idle"
    /\ \E id \in InodeIds :
       \E cur \in {SeedCursor(id, sb)} :
          /\ inode' = [ZeroInode EXCEPT !.xattr = SQUASHFS_INVALID_XATTR,
                                        !.next = cur]
          /\ g' = NewFrame(cur, SizeofBase, TRUE)
          /\ hin' = id
    /\ pc' = AfterEntry(SizeofBase)
    /\ op' = "inode_base"
    /\ io' = <<>>
    /\ zlog' = <<>>
    /\ UNCHANGED <<image, sb, ret, heap, hout>>

\* sqsh_get_inode from the return of the base-header pull to the call of
\* sqsh_metadata_get in the variant decoder, or to its own return.  The
\* bytes pulled so far sit in inode->base (zeroed before) in either case.
sqsh_get_inode_dispatch ==
    /\ pc = "get_done"
    /\ op = "inode_base"
    /\ \E base \in {swapendian_base_inode(
                       g.buf \o Zeros(SizeofBase - Len(g.buf)))} :
          IF g.err # SQFS_OK
          THEN /\ inode' = [inode EXCEPT !.base = base]
               /\ ret' = g.err
               /\ pc' = "done"
               /\ UNCHANGED <<g, op>>
          ELSE IF HasVariantDecoder(base.inode_type)
          THEN /\ inode' = [inode EXCEPT !.base = base,
                                         !.type = sqsh_inode_type(base.inode_type)]
               /\ g' = NewFrame(inode.next, SizeofVariant(base.inode_type), TRUE)
               /\ op' = "inode_var"
               /\ pc' = AfterEntry(SizeofVariant(base.inode_type))
               /\ ret' = ret
          ELSE /\ inode' = [inode EXCEPT !.base = base,
                                         !.type = sqsh_inode_type(base.inode_type)]
               /\ ret' = SQFS_ERR
               /\ pc' = "done"
               /\ UNCHANGED <<g, op>>
    /\ UNCHANGED <<image, sb, io, zlog, heap, hin, hout>>

\* the variant decoder from the return of its pull, then sqsh_verify_inode
\* and the return of sqsh_get_inode.  The pull has moved inode->next.
sqsh_get_inode_finish ==
    /\ pc = "get_done"
    /\ op = "inode_var"
    /\ IF g.err # SQFS_OK
       THEN /\ inode' = [inode EXCEPT !.next = g.cur]
            /\ ret' = g.err
       ELSE \E ino \in {InitVariant([inode EXCEPT !.next = g.cur], g.buf)} :
            /\ inode' = ino
            /\ ret' = sqsh_verify_inode(sb, ino)
    /\ pc' = "done"
    /\ UNCHANGED <<image, sb, op, g, io, zlog, heap, hin, hout>>

\* the caller has its answer and drops cursor and inode; the mount is ready
\* for the next call
NextCall ==
    /\ pc = "done"
    /\ pc' = "idle"
    /\ op' = "none"
    /\ g' = IdleFrame
    /\ inode' = ZeroInode
    /\ ret' = "none"
    /\ io' = <<>>
    /\ zlog' = <<>>
    /\ heap' = [live |-> heap.live, allocs |-> 0, frees |-> 0]
    /\ hin' = "none"
    /\ UNCHANGED <<image, sb, hout>>

Next ==
    \/ sqsh_metadata_get_call
    \/ sqsh_metadata_get_iter
    \/ sqsh_metadata_get_return
    \/ sqsh_get_inode_call
    \/ sqsh_get_inode_dispatch
    \/ sqsh_get_inode_finish
    \/ NextCall

Spec == Init /\ [][Next]_vars

---------------------------------------------------------------------------
(* Claims on header decoding and single block reads                        *)

\* C4: for every 16-bit header h, sqsh_metadata_header reports compressed
\* exactly when bit 15 of h is clear and size = h with bit 15 masked off, a
\* masked size of zero being reported as 0x8000; 0x4000 gives size 0x4000 and
\* compressed.  (SpecMeta)
C4_MetadataHeaderDecode ==
    (pc = "done" /\ hout.decoded) =>
        /\ hout.hdr = hin
        /\ hout.compressed = (hin < 32768)
        /\ hout.size = (IF hin % 32768 = 0 THEN 32768 ELSE hin % 32768)
        /\ (hin = 16384 => hout.size = 16384 /\ hout.compressed)

C4_Witness ==
    pc = "done" /\ hout.decoded /\ hin = 16384 /\ hout.size = 16384 /\ hout.compressed

\* C5 as stated: header 0x0000 is decoded as 0x8000 raw payload bytes with
\* compressed = false, and the decompressor is not invoked for the block.
C5_ZeroHeaderIsRaw ==
    (pc = "done" /\ hout.decoded /\ hin = 0) =>
        hout.size = 32768 /\ hout.compressed = FALSE /\ zlog = <<>>

\* C5 amended: header 0x0000 is decoded as 0x8000 on-disk payload bytes with
\* compressed = true, and once the payload has been read in full the
\* decompressor is invoked on those 0x8000 bytes.  (SpecMeta)
C5_ZeroHeaderIsCompressed ==
    (pc = "done" /\ hout.decoded /\ hin = 0) =>
        /\ hout.size = 32768
        /\ hout.compressed = TRUE
        /\ (io[2].n = 32768 => zlog = <<32768>>)

C5_Witness ==
    /\ pc = "done" /\ hin = 0 /\ hout.decoded /\ hout.compressed
    /\ io[2].n = 32768 /\ zlog = <<32768>> /\ ret = SQFS_OK

\* C6 as stated: header 0x8000 is decoded as size = 0 with compressed = false,
\* and nothing is decompressed.
C6_FlagOnlyHeaderIsEmpty ==
    (pc = "done" /\ hout.decoded /\ hin = 32768) =>
        hout.size = 0 /\ hout.compressed = FALSE /\ zlog = <<>>

\* C6 amended: header 0x8000 is decoded as size = 0x8000 (the masked-zero
\* rule) with compressed = false; the decompressor is not invoked and a
\* successful read hands back the 0x8000 raw bytes.  (SpecMeta)
C6_FlagOnlyHeaderIsFullRaw ==
    (pc = "done" /\ hout.decoded /\ hin = 32768) =>
        /\ hout.size = 32768
        /\ hout.compressed = FALSE
        /\ zlog = <<>>
        /\ (ret = SQFS_OK => ~hout.block_null /\ hout.block_size = 32768)

C6_Witness ==
    /\ pc = "done" /\ hin = 32768 /\ hout.decoded /\ ~hout.compressed
    /\ ret = SQFS_OK /\ hout.block_size = 32768 /\ zlog = <<>>

\* C7: for every 32-bit data header h, sqsh_data_header reports compressed
\* exactly when bit 24 of h is clear and size = bits 23..0 of h, whatever
\* bits 31..25 are.  (SpecData)
C7_DataHeaderLow24 ==
    (pc = "done" /\ hout.decoded) =>
        /\ hout.compressed = ((hin[2] \div 256) % 2 = 0)
        /\ hout.size = W32(hin[2] % 256, hin[1])

\* C8: every metadata block sqsh_metadata_read returns successfully, raw or
\* compressed, has a size of at most 8192 bytes.  (SpecMeta)
C8_BlockAtMost8192 ==
    (pc = "done" /\ ret = SQFS_OK) =>
        ~hout.block_null /\ hout.block_size <= 8192

---------------------------------------------------------------------------
(* Claims on the metadata cursor and the inode resolver                    *)

\* the decompressed payloads of the blocks from header position pos on,
\* concatenated, as far as needed for `need` bytes or up to the first block
\* that cannot be read
RECURSIVE PayloadFrom(_, _, _)
PayloadFrom(img, pos, need) ==
    IF need <= 0 THEN <<>>
    ELSE LET r == sqsh_metadata_read(img, pos)
         IN  IF r.b.err # SQFS_OK THEN <<>>
             ELSE r.b.block.data
                  \o PayloadFrom(img, pos + r.data_size, need - r.b.block.size)

\* the number of payload bytes between the start of the block at pos and the
\* cursor cur, walking block by block (negative when cur is not on the walk)
RECURSIVE IndexOf(_, _, _)
IndexOf(img, pos, cur) ==
    IF pos = cur.block THEN cur.offset
    ELSE IF pos > cur.block THEN -1000000
    ELSE LET r == sqsh_metadata_read(img, pos)
         IN  IF r.b.err # SQFS_OK THEN -1000000
             ELSE r.b.block.size + IndexOf(img, pos + r.data_size, cur)

\* bytes a..b of s, with -1 where s has no such byte
Slice(s, a, b) ==
    [i \in 1..(b - a + 1) |-> IF a + i - 1 \in DOMAIN s THEN s[a + i - 1] ELSE -1]

\* the cursor names a readable block and its offset lies within the payload
StartsWithinBlock(img, cur) ==
    LET r == sqsh_metadata_read(img, cur.block)
    IN  r.b.err = SQFS_OK /\ cur.offset <= r.b.block.size

\* C1: a successful sqsh_metadata_get(cursor, dst, n) from a cursor whose
\* offset lies within the payload of its block copies exactly the n
\* consecutive bytes of the concatenated decompressed payloads that begin at
\* the cursor, and leaves the cursor n payload bytes further along; three
\* blocks of 100 bytes and a get of 250 from offset 0 read three blocks and
\* end at offset 50 of the third.
C1_GetDeliversStream ==
    (pc = "get_done" /\ g.err = SQFS_OK /\ StartsWithinBlock(image, g.start)) =>
        /\ g.size = 0
        /\ g.dst =>
             g.buf = Slice(PayloadFrom(image, g.start.block, g.start.offset + g.n),
                           g.start.offset + 1, g.start.offset + g.n)
        /\ IndexOf(image, g.start.block, g.cur) = g.start.offset + g.n
        /\ (image = ExampleImage /\ g.start = Cursor(0, 0) /\ g.n = ExampleGet) =>
             g.iters = 3 /\ g.cur.block = 206 /\ g.cur.offset = ExampleGet - 200

C1_Witness ==
    /\ pc = "get_done" /\ g.err = SQFS_OK /\ image = ExampleImage
    /\ g.start = Cursor(0, 0) /\ g.n = 250 /\ g.dst /\ Len(g.buf) = 250
    /\ g.iters = 3 /\ g.cur = Cursor(206, 50)

\* C2: when a pull ends exactly at the end of a block's decompressed payload
\* the cursor's block becomes the block's header position plus its on-disk
\* footprint (2 + on-disk payload size) and its offset 0; otherwise only the
\* offset grows by the bytes taken.
C2_BlockBoundaryAdvance ==
    g.last.valid =>
        LET l == g.last
            ondisk == OnDiskSize(image[l.hdrpos + 1] + 256 * image[l.hdrpos + 2])
        IN  IF l.before.offset + l.take = l.size
            THEN g.cur = Cursor(l.hdrpos + 2 + ondisk, 0)
            ELSE g.cur = Cursor(l.before.block, l.before.offset + l.take)

C2_Witness ==
    /\ pc = "get_done" /\ g.err = SQFS_OK /\ g.last.valid
    /\ g.last.take > 0
    /\ g.last.before.offset + g.last.take = g.last.size
    /\ g.last.disk # g.last.size
    /\ g.cur = Cursor(g.last.hdrpos + 2 + g.last.disk, 0)

\* C3: after any successful sqsh_metadata_get, from any start cursor, the
\* cursor's offset is at most the decompressed payload size of the last
\* block fetched.
C3_OffsetWithinLastBlock ==
    (pc = "get_done" /\ g.err = SQFS_OK /\ g.last.valid) =>
        g.cur.offset <= g.last.size

\* C9: when a backing read comes back short or the decompressor fails, that
\* is the last backing read and the last decompressor call of the top-level
\* call: sqsh_metadata_get has returned SQFS_ERR, and a sqsh_get_inode that
\* ran it returns SQFS_ERR, never SQFS_OK.
C9_FailureAborts ==
    \A i \in 1..Len(io) :
        io[i].err # SQFS_OK =>
            /\ i = Len(io)
            /\ pc \in {"get_done", "done"}
            /\ g.err = SQFS_ERR
            /\ (pc = "done" => ret = SQFS_ERR)

C9_Witness ==
    /\ pc = "done" /\ op = "inode_var" /\ ret = SQFS_ERR
    /\ Len(io) > 3
    /\ io[Len(io)].kind = "z" /\ io[Len(io)].err # SQFS_OK

\* C10: whenever sqsh_get_inode returns SQFS_OK the inode has inode_number
\* in [1, superblock.inodes], a type code in the closed valid range, and a
\* node-kind tag that is not VBAD.
C10_ReturnedInodeValid ==
    (pc = "done" /\ op \in {"inode_base", "inode_var"} /\ ret = SQFS_OK) =>
        /\ inode.base.inode_number[2] = 0
        /\ inode.base.inode_number[1] >= 1
        /\ inode.base.inode_number[1] <= NumInodes
        /\ inode.base.inode_type >= 1
        /\ inode.base.inode_type <= 14
        /\ inode.type \in {"VDIR", "VREG", "VLNK", "VBLK", "VCHR", "VFIFO", "VSOCK"}

C10_Witness ==
    /\ pc = "done" /\ op = "inode_var" /\ ret = SQFS_OK
    /\ inode.type = "VDIR" /\ inode.base.inode_number = W32(0, NumInodes)

---------------------------------------------------------------------------
(* Claims on inode validation and decoding                                 *)

\* C11: for a directory inode of either encoding (DIR or LDIR) whose variant
\* record was decoded and whose inode_number is valid, sqsh_get_inode returns
\* SQFS_OK exactly when parent_inode is in [1, superblock.inodes + 1].
C11_DirectoryParentInRange ==
    (/\ pc = "done" /\ op = "inode_var" /\ g.err = SQFS_OK
     /\ inode.base.inode_type \in {SQUASHFS_DIR_TYPE, SQUASHFS_LDIR_TYPE}
     /\ inode.base.inode_number[2] = 0
     /\ inode.base.inode_number[1] \in 1..NumInodes) =>
        (ret = SQFS_OK <=>
            /\ inode.xtra.parent_inode[2] = 0
            /\ inode.xtra.parent_inode[1] \in 1..(NumInodes + 1))

\* the same statement for the compact encoding alone, which the code honours
C11_CompactDirectoryParentInRange ==
    (/\ pc = "done" /\ op = "inode_var" /\ g.err = SQFS_OK
     /\ inode.base.inode_type = SQUASHFS_DIR_TYPE
     /\ inode.base.inode_number[2] = 0
     /\ inode.base.inode_number[1] \in 1..NumInodes) =>
        (ret = SQFS_OK <=>
            /\ inode.xtra.parent_inode[2] = 0
            /\ inode.xtra.parent_inode[1] \in 1..(NumInodes + 1))

\* C12: when the base header pulled by sqsh_get_inode holds a type code
\* outside 1 .. 14, the call returns SQFS_ERR at once: no backing read and no
\* decompressor call follows the base-header pull, the cursor is not driven
\* again, and nlink, size, xattr, next and the variant fields of the inode
\* stay as sqsh_get_inode initialised them.
C12_UnknownTypeRejected ==
    [][(/\ pc = "get_done" /\ op = "inode_base" /\ g.err = SQFS_OK
        /\ (LE16(g.buf, 0) < SQUASHFS_TYPE_MIN_VALID
            \/ LE16(g.buf, 0) > SQUASHFS_TYPE_MAX_VALID)) =>
           /\ pc' = "done"
           /\ ret' = SQFS_ERR
           /\ io' = io /\ zlog' = zlog /\ heap' = heap
           /\ g' = g
           /\ inode'.base.inode_type = LE16(g.buf, 0)
           /\ inode'.nlink = ZeroInode.nlink
           /\ inode'.size = ZeroInode.size
           /\ inode'.xtra = ZeroInode.xtra
           /\ inode'.xattr = SQUASHFS_INVALID_XATTR
           /\ inode'.next = g.start]_vars

C12_Witness ==
    /\ pc = "done" /\ op = "inode_base" /\ g.err = SQFS_OK /\ ret = SQFS_ERR
    /\ inode.base.inode_type = SQUASHFS_TYPE_MAX_VALID + 1
    /\ inode.base.inode_number = W32(0, 1)
    /\ Len(io) = 2 /\ inode.xtra = ZeroInode.xtra

\* C13: a decoded compact REG inode has nlink = 1 and xattr = 0xFFFFFFFF
\* whatever its record holds, and every decoded inode of a variant without an
\* on-disk xattr field (REG, DIR, SYMLINK, LSYMLINK, compact device, compact
\* FIFO/socket) has xattr = 0xFFFFFFFF.
C13_DefaultNlinkAndXattr ==
    (pc = "done" /\ op = "inode_var" /\ g.err = SQFS_OK) =>
        /\ (inode.base.inode_type = SQUASHFS_REG_TYPE =>
               inode.nlink = W32(0, 1))
        /\ (inode.base.inode_type \in
               {SQUASHFS_REG_TYPE, SQUASHFS_DIR_TYPE, SQUASHFS_SYMLINK_TYPE,
                SQUASHFS_LSYMLINK_TYPE, SQUASHFS_BLKDEV_TYPE, SQUASHFS_CHRDEV_TYPE,
                SQUASHFS_FIFO_TYPE, SQUASHFS_SOCKET_TYPE} =>
               inode.xattr = W32(65535, 65535))

C13_Witness ==
    /\ pc = "done" /\ op = "inode_var" /\ ret = SQFS_OK
    /\ inode.base.inode_type = SQUASHFS_REG_TYPE
    /\ inode.nlink = W32(0, 1) /\ inode.xattr = W32(65535, 65535)
    /\ inode.xtra.start_block = W32(0, 96)

---------------------------------------------------------------------------
(* Device numbers: the rdev pack of the format against the device decoders *)

\* ((M & 0xFFF) << 8) | (m & 0xFF) | ((m & 0xFFF00) << 12) as a 32-bit word:
\* bits 0..7 and 20..31 carry the minor, bits 8..19 the major
PackRdev(M, m) ==
    LET a == BitAnd(M, 4095) * 256
        b == BitAnd(m, 255)
        c == BitAnd(m, 1048320) \div 256
    IN  W32(BitOr(a \div 65536, c * 16), BitOr(a % 65536, b))

\* the on-disk record of a device inode: base header, nlink, rdev, and the
\* xattr id of the extended encoding
DevRecord(t, rdev) ==
    B16(t) \o B16(420) \o B16(1) \o B16(2) \o B32(W32(1, 2)) \o B32(W32(0, 1))
    \o B32(W32(0, 1)) \o B32(rdev)
    \o (IF t \in {SQUASHFS_LBLKDEV_TYPE, SQUASHFS_LCHRDEV_TYPE}
        THEN B32(W32(0, 7)) ELSE <<>>)

\* majors of 12 bits and minors of 20 bits: every single bit, every run of
\* low bits, and mixed patterns
DevMajors ==
    {Pow2(k) : k \in 0..11} \cup {Pow2(k) - 1 : k \in 0..12} \cup {2730, 1365}

DevMinors ==
    {Pow2(k) : k \in 0..19} \cup {Pow2(k) - 1 : k \in 0..20}
    \cup {699050, 349525, 65280, 1048320}

DevTypes ==
    {SQUASHFS_BLKDEV_TYPE, SQUASHFS_CHRDEV_TYPE,
     SQUASHFS_LBLKDEV_TYPE, SQUASHFS_LCHRDEV_TYPE}

InitDev ==
    /\ hin \in [major : DevMajors, minor : DevMinors, type : DevTypes]
    /\ image = DevRecord(hin.type, PackRdev(hin.major, hin.minor))
    /\ sb = [inode_table_start |-> 0, inodes |-> W32(0, NumInodes)]
    /\ pc = "idle"
    /\ op = "none"
    /\ g = IdleFrame
    /\ inode = ZeroInode
    /\ ret = "none"
    /\ io = <<>>
    /\ zlog = <<>>
    /\ heap = EmptyHeap
    /\ hout = NoHeader

\* the device decoder of the record's type, applied to the record
DevDecode ==
    /\ pc = "idle"
    /\ \E base \in {swapendian_base_inode(SubSeq(image, 1, SizeofBase))} :
       \E ino \in {InitVariant([ZeroInode EXCEPT
                                   !.xattr = SQUASHFS_INVALID_XATTR,
                                   !.base = base,
                                   !.type = sqsh_inode_type(base.inode_type)],
                                image)} :
          /\ inode' = ino
          /\ hout' = [decoded |-> TRUE, major |-> ino.xtra.major,
                      minor |-> ino.xtra.minor]
    /\ pc' = "done"
    /\ op' = "dev"
    /\ ret' = SQFS_OK
    /\ UNCHANGED <<image, sb, g, io, zlog, heap, hin>>

NextDev == DevDecode

SpecDev == InitDev /\ [][NextDev]_vars

\* C14: for every major M of 12 bits and minor m of 20 bits, the rdev word
\* ((M & 0xFFF) << 8) | (m & 0xFF) | ((m & 0xFFF00) << 12), stored in a
\* compact or extended device inode, is decoded by the device decoders to
\* major = M and minor = m.  (SpecDev)
C14_RdevRoundTrip ==
    (pc = "done" /\ op = "dev") =>
        /\ hout.major = hin.major
        /\ hout.minor = hin.minor
        /\ inode.type \in {"VBLK", "VCHR"}

C14_Witness ==
    /\ pc = "done" /\ op = "dev"
    /\ hin.major = 2730 /\ hin.minor = 699050
    /\ hin.type = SQUASHFS_BLKDEV_TYPE
    /\ inode.xtra.major = 2730 /\ inode.xtra.minor = 699050

---------------------------------------------------------------------------
(* Inode ids: sqsh_metadata_run_inode on 64-bit ids and table bases        *)

SeedLimbs == {0, 1, 16, 65535}

SeedIds == {<<a, b, c, d>> : a \in SeedLimbs, b \in SeedLimbs,
                             c \in SeedLimbs, d \in SeedLimbs}

\* inode table bases: 0, 0x1000, 0xFFFFFFFF, 2^32
SeedBases == {<<0, 0, 0, 0>>, <<4096, 0, 0, 0>>, <<65535, 65535, 0, 0>>,
              <<0, 0, 1, 0>>}

InitSeed ==
    /\ hin \in [id : SeedIds, base : SeedBases]
    /\ image = <<>>
    /\ sb = [inode_table_start |-> 0, inodes |-> W32(0, NumInodes)]
    /\ pc = "idle"
    /\ op = "none"
    /\ g = IdleFrame
    /\ inode = ZeroInode
    /\ ret = "none"
    /\ io = <<>>
    /\ zlog = <<>>
    /\ heap = EmptyHeap
    /\ hout = NoHeader

RunInode ==
    /\ pc = "idle"
    /\ hout' = [decoded |-> TRUE,
                cur |-> sqsh_metadata_run_inode(hin.id, hin.base)]
    /\ pc' = "done"
    /\ op' = "seed"
    /\ UNCHANGED <<image, sb, g, inode, ret, io, zlog, heap, hin>>

NextSeed == RunInode

SpecSeed == InitSeed /\ [][NextSeed]_vars

\* C15: for every 64-bit id and table base, sqsh_metadata_run_inode gives
\* offset = id & 0xFFFF (the low 16-bit limb) and block = (id >> 16) + base
\* (limb by limb with carry); id 0 with base 0x1000 gives (0x1000, 0); and
\* for the same base no other id gives the same cursor.  (SpecSeed)
C15_SeedFromId ==
    (pc = "done" /\ op = "seed") =>
        LET id == hin.id
            base == hin.base
            s1 == id[2] + base[1]
            s2 == id[3] + base[2] + (s1 \div 65536)
            s3 == id[4] + base[3] + (s2 \div 65536)
            s4 == base[4] + (s3 \div 65536)
        IN  /\ hout.cur.offset = id[1]
            /\ hout.cur.block = <<s1 % 65536, s2 % 65536, s3 % 65536, s4 % 65536>>
            /\ (id = <<0, 0, 0, 0>> /\ base = <<4096, 0, 0, 0>> =>
                   hout.cur = Cursor(<<4096, 0, 0, 0>>, 0))
            /\ \A id2 \in SeedIds :
                   id2 # id => sqsh_metadata_run_inode(id2, base) # hout.cur

C15_Witness ==
    /\ pc = "done" /\ op = "seed"
    /\ hin.id = <<0, 0, 0, 0>> /\ hin.base = <<4096, 0, 0, 0>>
    /\ hout.cur = Cursor(<<4096, 0, 0, 0>>, 0)

---------------------------------------------------------------------------
(* Claims on the cursor of the decoded inode                               *)

\* C16 as stated: when the variant decoder starts, inode.next is the seed
\* cursor advanced by the 16 bytes of the base header, and the decoder starts
\* reading there.
C16_VariantStartsPastBase ==
    (/\ op = "inode_var" /\ pc = "get_loop" /\ g.iters = 0
     /\ StartsWithinBlock(image, SeedCursor(hin, sb))) =>
        /\ IndexOf(image, SeedCursor(hin, sb).block, inode.next)
               = SeedCursor(hin, sb).offset + SizeofBase
        /\ g.start = inode.next

\* C16 amended: inode.next is the snapshot taken before the base header is
\* pulled, and the pull moves a local copy: when the variant decoder starts,
\* inode.next is still the seed cursor of the id, the decoder starts reading
\* at the seed and asks for the whole record, 16 bytes of base header plus
\* the variant's tail, whose first 16 bytes are the base header again.
C16_VariantRereadsBase ==
    /\ (op = "inode_var" /\ pc = "get_loop" /\ g.iters = 0) =>
          /\ inode.next = SeedCursor(hin, sb)
          /\ g.start = SeedCursor(hin, sb)
          /\ g.cur = SeedCursor(hin, sb)
          /\ g.n = SizeofBase + VariantTail(inode.base.inode_type)
    /\ (/\ op = "inode_var" /\ pc \in {"get_done", "done"} /\ g.err = SQFS_OK
        /\ StartsWithinBlock(image, SeedCursor(hin, sb))) =>
          swapendian_base_inode(SubSeq(g.buf, 1, SizeofBase)) = inode.base

C16_Witness ==
    /\ op = "inode_var" /\ pc = "get_loop" /\ g.iters = 0
    /\ hin = <<0, 0, 0, 0>> /\ inode.next = Cursor(0, 0)
    /\ inode.base.inode_type = SQUASHFS_REG_TYPE /\ g.n = 32

\* C17: after a successful sqsh_get_inode, inode.next lies 16 + tail payload
\* bytes behind the seed in the metadata stream (tail: REG 16, LREG 40,
\* DIR 16, LDIR 24, SYMLINK 8, compact device/IPC 8, extended device/IPC 12),
\* and for a seed inside its block it is positioned by the block-boundary
\* rule: inside a block, or at the header of the next block with offset 0.
C17_NextAfterVariantTail ==
    (pc = "done" /\ op = "inode_var" /\ ret = SQFS_OK) =>
        /\ IndexOf(image, SeedCursor(hin, sb).block, inode.next)
               = SeedCursor(hin, sb).offset + SizeofBase
                 + VariantTail(inode.base.inode_type)
        /\ StartsWithinBlock(image, SeedCursor(hin, sb)) =>
              \/ inode.next.offset = 0
              \/ LET r == sqsh_metadata_read(image, inode.next.block)
                 IN  r.b.err = SQFS_OK /\ inode.next.offset < r.b.block.size

C17_Witness ==
    /\ pc = "done" /\ op = "inode_var" /\ ret = SQFS_OK
    /\ inode.base.inode_type = SQUASHFS_LDIR_TYPE
    /\ hin = <<InodePad, 0, 0, 0>>
    /\ inode.next = Cursor(0, InodePad + 40)

---------------------------------------------------------------------------
(* Claims on buffers, read order and memory safety of the cursor           *)

\* C18: whenever sqsh_metadata_get or sqsh_get_inode is not inside a loop
\* iteration, no block or data buffer is live and the running call has freed
\* as many buffers as it allocated, on the success path and after a short
\* header read, a short payload read or a failed decompression; and the
\* block read that failed handed back a NULL block.
C18_BlocksFreed ==
    /\ heap.live >= 0
    /\ heap.frees <= heap.allocs
    /\ pc \in {"idle", "get_loop", "get_done", "done"} =>
          heap.live = 0 /\ heap.allocs = heap.frees
    /\ (pc \in {"get_done", "done"} /\ g.err = SQFS_ERR) =>
          \E r \in {sqsh_metadata_read(image, g.pos)} :
              /\ r.b.err = SQFS_ERR
              /\ r.b.block = NullBlock
              /\ r.b.allocs = r.b.frees

C18_Witness ==
    /\ pc = "done" /\ op = "inode_var" /\ ret = SQFS_ERR
    /\ io[Len(io)].kind = "z" /\ io[Len(io)].err # SQFS_OK
    /\ heap.live = 0 /\ heap.allocs = 7 /\ heap.frees = 7

\* C19: in one sqsh_metadata_get call every loop iteration first reads the
\* 2-byte header at the read position, then the payload right behind it in
\* its on-disk size, then decompresses it when the header says so, and
\* copies from it before the next iteration starts; the read position of
\* an iteration is the previous header position plus 2 plus the previous
\* on-disk payload size, hence strictly larger.
C19_SequentialReads ==
    [][pc = "get_loop" =>
        LET new == SubSeq(io', Len(io) + 1, Len(io'))
            hdr == image[g.pos + 1] + 256 * image[g.pos + 2]
        IN  /\ Len(new) \in 1..3
            /\ new[1].kind = "read" /\ new[1].pos = g.pos /\ new[1].len = 2
            /\ g.iters > 0 =>
                  /\ g.last.valid
                  /\ g.pos = g.last.hdrpos + 2 + g.last.disk
                  /\ g.pos > g.last.hdrpos
            /\ Len(new) >= 2 =>
                  /\ new[1].err = SQFS_OK
                  /\ new[2].kind = "read"
                  /\ new[2].pos = g.pos + 2
                  /\ new[2].len = OnDiskSize(hdr)
            /\ Len(new) = 3 =>
                  /\ new[2].err = SQFS_OK
                  /\ new[3].kind = "z"
                  /\ hdr < 32768
            /\ (Len(new) = 2 /\ new[2].err = SQFS_OK) => hdr >= 32768
            /\ pc' = "get_loop" =>
                  /\ new[Len(new)].err = SQFS_OK
                  /\ g'.last.valid /\ g'.last.hdrpos = g.pos
                  /\ g'.last.disk = OnDiskSize(hdr)
                  /\ g'.pos = g.pos + 2 + OnDiskSize(hdr)
                  /\ g.dst => Len(g'.buf) = Len(g.buf) + g'.last.take]_vars

C19_Witness ==
    /\ pc = "get_done" /\ op = "get" /\ g.err = SQFS_OK /\ g.iters = 3
    /\ Len(io) = 7 /\ io[1].pos = 0 /\ io[3].pos = 4 /\ io[6].pos = 10
    /\ io[5].kind = "z"

\* C20: in every loop iteration of sqsh_metadata_get, for any start cursor
\* and any image, cursor.offset <= block.size holds before the subtraction
\* block.size - cursor.offset and the copied range
\* [cursor.offset, cursor.offset + take) lies within the block.
C20_CopyWithinBlock ==
    /\ pc # "crashed"
    /\ g.last.valid =>
          /\ g.last.before.offset <= g.last.size
          /\ g.last.before.offset + g.last.take <= g.last.size

---------------------------------------------------------------------------
(* Termination of the cursor loop                                          *)

\* one direct cursor pull on a generated metadata stream
InitLive ==
    /\ image \in StreamImages
    /\ sb = [inode_table_start |-> 0, inodes |-> W32(0, NumInodes)]
    /\ pc = "idle"
    /\ op = "none"
    /\ g = IdleFrame
    /\ inode = ZeroInode
    /\ ret = "none"
    /\ io = <<>>
    /\ zlog = <<>>
    /\ heap = EmptyHeap
    /\ hin = "none"
    /\ hout = NoHeader

NextLive ==
    \/ sqsh_metadata_get_call
    \/ sqsh_metadata_get_iter
    \/ sqsh_metadata_get_return

\* Weak fairness of the loop iteration, by the definition of WF:
\* []<>~ENABLED <<A>>_vars \/ []<><<A>>_vars for A = sqsh_metadata_get_iter.
\* The iteration is enabled exactly when pc = "get_loop" (it has an outcome
\* for every read result and always counts in g.iters), and every step taken
\* there is an iteration.
LoopFairness ==
    \/ []<>(pc # "get_loop")
    \/ []<><<pc = "get_loop" /\ g'.iters = g.iters + 1>>_vars

\* sqsh_metadata_get is sequential code that waits for nothing outside the
\* call: the loop runs its next iteration and a finished call returns
SpecLive ==
    /\ InitLive
    /\ [][NextLive]_vars
    /\ LoopFairness
    /\ WF_vars(sqsh_metadata_get_return)

\* C21 as stated: every sqsh_metadata_get call ends with SQFS_OK or with
\* SQFS_ERR from a short read.
C21_EndsOkOrShortRead ==
    pc \in {"get_done", "crashed"} =>
        \/ g.err = SQFS_OK
        \/ /\ g.err = SQFS_ERR
           /\ io[Len(io)].kind = "read"
           /\ io[Len(io)].n < io[Len(io)].len

\* C21 amended: on any finite image sqsh_metadata_get terminates for every
\* start cursor and every requested size.  Every loop iteration that does
\* not end the call moves the read position forward by at least 3 bytes (the
\* 2-byte header plus a nonzero on-disk size) and keeps it inside the image,
\* so a run of blocks with empty payloads cannot loop forever.  The call ends
\* with SQFS_OK, or with SQFS_ERR from a short read or a failed
\* decompression; only a start offset beyond the payload of its block can
\* end in a fault of the copy instead.  (SpecLive)
C21_GetTerminates ==
    /\ [][pc = "get_loop" =>
            \/ pc' = "get_done" /\ g'.err = SQFS_ERR /\ g'.pos = g.pos
            \/ pc' = "crashed"
            \/ /\ pc' \in {"get_loop", "get_done"}
               /\ g'.pos >= g.pos + 3
               /\ g'.pos <= Len(image)
               /\ g'.size <= g.size
               /\ (pc' = "get_done" <=> g'.size = 0)]_vars
    /\ [](pc = "get_done" =>
            \/ g.err = SQFS_OK /\ g.size = 0
            \/ /\ g.err = SQFS_ERR
               /\ io[Len(io)].err # SQFS_OK
               /\ \/ io[Len(io)].kind = "read" /\ io[Len(io)].n < io[Len(io)].len
                  \/ io[Len(io)].kind = "z")
    /\ [](pc = "crashed" => ~StartsWithinBlock(image, g.start))
    /\ (pc = "get_loop" ~> pc \in {"get_done", "crashed"})
    /\ (op = "get" ~> pc \in {"done", "crashed"})

C21_Witness ==
    /\ pc = "get_done" /\ op = "get" /\ g.err = SQFS_ERR
    /\ image = StreamImage(<<"ZE", "ZE", "ZE">>, 1)
    /\ g.start = Cursor(0, 0) /\ g.n = 1
    /\ g.iters = 4 /\ g.pos = Len(image)
    /\ io[Len(io)].kind = "read" /\ io[Len(io)].n < io[Len(io)].len

=============================================================================
